---- MODULE Spec2Model ----
(***************************************************************************)
(* Model of larq_bnn.py: a top-to-bottom training script.  The state is    *)
(* the script's module-level names plus the locals of its two functions,   *)
(* and pc is the statement the interpreter is at.  The file system, the    *)
(* command list file and the decoded clips are inputs.                     *)
(*                                                                         *)
(* Strings that the code inspects (file names, str.endswith) are tuples of *)
(* characters; labels are 0-based as enumerate() produces them, sequences  *)
(* are 1-based, so the command with label l is commands[l + 1].            *)
(***************************************************************************)
EXTENDS Integers, Sequences, FiniteSets, TLC

\* ---------------------------------------------------------------- bounds

\* Longest command list read from commands_list.txt.
MaxCommands == 2

\* ---------------------------------------------------------- input domains

\* Command names that may appear in commands_list.txt.
CommandNames == {"yes", "no"}

\* Directory entries that may exist in a command directory, in directory
\* order: "a.wav", "b.wav" and ".wav" end with ".wav"; "a.wave" holds ".wav"
\* but does not end with it.
DirOrder ==
    << <<"a", ".", "w", "a", "v">>,
       <<"a", ".", "w", "a", "v", "e">>,
       <<".", "w", "a", "v">>,
       <<"b", ".", "w", "a", "v">> >>

FileNames == { DirOrder[k] : k \in 1..Len(DirOrder) }

\* ------------------------------------------------------ program constants

DATASET_PATH == "speech-commands/"

DotWav == <<".", "w", "a", "v">>

\* test_size=0.2, in percent.
TestSizePercent == 20

\* audio[:16000] and [16000] - tf.shape(audio).
SampleLen == 16000

\* tf.signal.stft(audio, frame_length=255, frame_step=128)
FrameLength == 255
FrameStep == 128

ModelPath == "binary_kws_model.h5"

\* Decoded clip lengths the conversion is tried on: shorter than, equal to
\* and longer than one second.
ClipLengths == {0, SampleLen - 1, SampleLen, SampleLen + 1, 2 * SampleLen}

\* Channel counts of a decoded clip (tf.squeeze(axis=-1) needs exactly 1).
ClipChannels == {1, 2}

\* ------------------------------------------------------------- variables

VARIABLES
    pc,                 \* statement the script is at
    error,              \* the exception that ended the run, or "none"
    commands_file,      \* commands_list.txt: whether it exists, and its lines
    fs,                 \* directory path -> what os.path / os.listdir see, for
                        \* the directories that commands_list.txt names
    listdir_reversed,   \* which of two orders os.listdir lists entries in
    commands,
    cmd_i,              \* commands the outer loop of load_audio_files has taken
    wav_files,          \* rest of wav_files the inner loop has yet to visit
    audio_paths,
    labels,
    warnings,           \* warnings printed by load_audio_files, in order
    train_paths, val_paths, train_labels, val_labels,
    spectrograms,       \* paths_to_spectrograms' local list
    clip,               \* locals of the last loop iteration of paths_to_spectrograms
    train_spectrograms, val_spectrograms,
    input_shape, num_classes,
    model,              \* "none", "built", "compiled", "trained"
    saved               \* paths model.save has written, in order

vars == << pc, error, commands_file, fs, listdir_reversed, commands, cmd_i, wav_files, audio_paths, labels,
           warnings, train_paths, val_paths, train_labels, val_labels,
           spectrograms, clip, train_spectrograms, val_spectrograms,
           input_shape, num_classes, model, saved >>

\* ---------------------------------------------------------------- helpers

RECURSIVE SumOver(_, _)
SumOver(f, S) ==
    IF S = {} THEN 0
    ELSE LET x == CHOOSE y \in S : TRUE IN f[x] + SumOver(f, S \ {x})

Range(s) == { s[i] : i \in 1..Len(s) }

\* os.path.join(a, b) for a relative component b: the pair is the path b
\* inside a.
Join(a, b) == << a, b >>

\* str.endswith
EndsWith(s, suffix) ==
    /\ Len(s) >= Len(suffix)
    /\ SubSeq(s, Len(s) - Len(suffix) + 1, Len(s)) = suffix

\* list.append(x)
ListInsertFront(list, x) == << x >> \o list

ListAppend(list, x) == Append(list, x)

\* ------------------------------------------------------------ file system

Missing == [kind |-> "missing", entries |-> {}]
NotADir == [kind |-> "file", entries |-> {}]
DirStates ==
    {Missing, NotADir} \cup { [kind |-> "dir", entries |-> E] : E \in SUBSET FileNames }

\* os.path.exists(command_path) and os.path.isdir(command_path)
IsCommandDir(command_path) == fs[command_path].kind = "dir"

\* os.listdir(command_path).  The order of the entries is arbitrary; it is
\* the file system's, drawn with it: DirOrder or its reverse.
Reverse(s) == [k \in 1..Len(s) |-> s[Len(s) + 1 - k]]

ListDir(command_path) ==
    LET Present(f) == f \in fs[command_path].entries
    IN SelectSeq(IF listdir_reversed THEN Reverse(DirOrder) ELSE DirOrder, Present)

\* [f for f in os.listdir(command_path) if f.endswith('.wav')]
WavFilesAnyEntry(command_path) == ListDir(command_path)

WavFiles(command_path) ==
    LET IsWav(f) == EndsWith(f, DotWav)
    IN SelectSeq(ListDir(command_path), IsWav)

\* len(wav_files) == 0
IsEmptyListingNever(files) == FALSE

IsEmptyListing(files) == Len(files) = 0

\* enumerate(commands): the label of the command at (1-based) position i
EnumerateFromOne(i) == i

Enumerate(i) == i - 1

\* ------------------------------------------------------ statement order

\* The module-level statements in source order; "scan" is the call of
\* load_audio_files, "spec_train" and "spec_val" the two calls of
\* paths_to_spectrograms, "stack" the conversions to tensors.
ProgramSaveBeforeFit ==
    << "read", "scan", "check", "split", "spec_train", "spec_val", "stack",
       "build", "compile", "save", "fit" >>

ProgramSplitBeforeCheck ==
    << "read", "scan", "split", "check", "spec_train", "spec_val", "stack",
       "build", "compile", "fit", "save" >>

Program ==
    << "read", "scan", "check", "split", "spec_train", "spec_val", "stack",
       "build", "compile", "fit", "save" >>

\* The statement after p; "done" after the last one.
Succ(p) ==
    LET i == CHOOSE k \in 1..Len(Program) : Program[k] = p
    IN IF i < Len(Program) THEN Program[i + 1] ELSE "done"

\* ------------------------------------------------------------------ Init

CommandLists ==
    UNION { [1..n -> CommandNames] : n \in 0..MaxCommands }

CommandFiles ==
    { [exists |-> TRUE, lines |-> c] : c \in CommandLists }
        \cup { [exists |-> FALSE, lines |-> << >>] }

NoClip == [len |-> 0, audio |-> 0, zero_padding |-> 0, signal |-> 0]

Init ==
    /\ pc = Program[1]
    /\ error = "none"
    /\ commands_file \in CommandFiles
    /\ fs \in [{ Join(DATASET_PATH, c) : c \in Range(commands_file.lines) } -> DirStates]
    /\ listdir_reversed \in BOOLEAN
    /\ commands = << >>
    /\ cmd_i = 0
    /\ wav_files = << >>
    /\ audio_paths = << >>
    /\ labels = << >>
    /\ warnings = << >>
    /\ train_paths = << >>
    /\ val_paths = << >>
    /\ train_labels = << >>
    /\ val_labels = << >>
    /\ spectrograms = << >>
    /\ clip = NoClip
    /\ train_spectrograms = << >>
    /\ val_spectrograms = << >>
    /\ input_shape = << >>
    /\ num_classes = 0
    /\ model = "none"
    /\ saved = << >>

Raise(e) ==
    /\ pc' = "error"
    /\ error' = e

\* ------------------------------------------- lines 13-14: read the commands

\* with open('commands_list.txt', 'r') as f: commands = f.read().splitlines()
ReadCommands ==
    /\ pc = "read"
    /\ commands_file.exists
    /\ commands' = commands_file.lines
    /\ pc' = Succ("read")
    /\ UNCHANGED << error, commands_file, fs, listdir_reversed, cmd_i, wav_files, audio_paths, labels, warnings,
                    train_paths, val_paths, train_labels, val_labels,
                    spectrograms, clip, train_spectrograms, val_spectrograms,
                    input_shape, num_classes, model, saved >>

\* open() raises when commands_list.txt does not exist.
ReadFail ==
    /\ pc = "read"
    /\ ~ commands_file.exists
    /\ Raise("FileNotFoundError")
    /\ UNCHANGED << commands_file, fs, listdir_reversed, commands, cmd_i, wav_files, audio_paths, labels, warnings,
                    train_paths, val_paths, train_labels, val_labels,
                    spectrograms, clip, train_spectrograms, val_spectrograms,
                    input_shape, num_classes, model, saved >>

\* --------------------------------------- lines 26-52: load_audio_files

CommandPath(i) == Join(DATASET_PATH, commands[i])

Warning(l, what) == [label |-> l, what |-> what]

\* One pass through the head of the outer loop (lines 39-44, 48-49): take the
\* next command, test its directory, list it and print the warning.
ScanCommand ==
    /\ pc = "scan"
    /\ cmd_i < Len(commands)
    /\ cmd_i' = cmd_i + 1
    /\ LET command_path == CommandPath(cmd_i + 1)
           l == Enumerate(cmd_i + 1)
       IN IF IsCommandDir(command_path)
          THEN LET files == WavFiles(command_path)
               IN
                 /\ wav_files' = files
                 /\ warnings' = IF IsEmptyListing(files)
                                THEN Append(warnings, Warning(l, "empty"))
                                ELSE warnings
                 /\ pc' = IF files = << >> THEN "scan" ELSE "scan_files"
          ELSE /\ warnings' = Append(warnings, Warning(l, "missing"))
               /\ wav_files' = wav_files
               /\ pc' = "scan"
    /\ UNCHANGED << error, commands_file, fs, listdir_reversed, commands, audio_paths, labels,
                    train_paths, val_paths, train_labels, val_labels,
                    spectrograms, clip, train_spectrograms, val_spectrograms,
                    input_shape, num_classes, model, saved >>

\* One iteration of the inner loop (lines 45-47): both appends.
ScanAppend ==
    /\ pc = "scan_files"
    /\ wav_files # << >>
    /\ audio_paths' = ListAppend(audio_paths, Join(CommandPath(cmd_i), Head(wav_files)))
    /\ labels' = ListAppend(labels, Enumerate(cmd_i))
    /\ wav_files' = Tail(wav_files)
    /\ pc' = IF Tail(wav_files) = << >> THEN "scan" ELSE "scan_files"
    /\ UNCHANGED << error, commands_file, fs, listdir_reversed, commands, cmd_i, warnings,
                    train_paths, val_paths, train_labels, val_labels,
                    spectrograms, clip, train_spectrograms, val_spectrograms,
                    input_shape, num_classes, model, saved >>

\* return audio_paths, labels (line 50), bound at line 52.
ScanReturn ==
    /\ pc = "scan"
    /\ cmd_i = Len(commands)
    /\ pc' = Succ("scan")
    /\ UNCHANGED << error, commands_file, fs, listdir_reversed, commands, cmd_i, wav_files, audio_paths, labels,
                    warnings, train_paths, val_paths, train_labels, val_labels,
                    spectrograms, clip, train_spectrograms, val_spectrograms,
                    input_shape, num_classes, model, saved >>

\* ------------------------------------------ lines 56-57: zero-sample check

NoSamplesNever(paths) == FALSE

NoSamples(paths) == Len(paths) = 0

CheckSamples ==
    /\ pc = "check"
    /\ IF NoSamples(audio_paths)
       THEN Raise("ValueError: Nessun campione trovato")
       ELSE pc' = Succ("check") /\ error' = error
    /\ UNCHANGED << commands_file, fs, listdir_reversed, commands, cmd_i, wav_files, audio_paths, labels, warnings,
                    train_paths, val_paths, train_labels, val_labels,
                    spectrograms, clip, train_spectrograms, val_spectrograms,
                    input_shape, num_classes, model, saved >>

\* ------------------------------------- lines 60-61: train_test_split
\* train_test_split(audio_paths, labels, test_size=0.2, random_state=seed,
\* stratify=labels).  The call's arguments are the script's; what the call
\* does with them is scikit-learn's stratified shuffle split: the test count
\* is ceil(test_size * n), the train count the rest, each class is shared
\* out in proportion (largest remainders first, ties broken at random), and
\* the call raises when a side would be empty, a class has fewer than two
\* members, or a side is smaller than the number of classes.  Which members
\* of a class go where depends on the shuffle and is left open; the order of
\* the rows inside each side is not modelled (rows are kept in index order).

\* ceil(test_size * n_samples)
NumTest(n) == (TestSizePercent * n + 99) \div 100

NumTrain(n) == n - NumTest(n)

Classes(y) == Range(y)

ClassIndices(y, c) == { i \in 1..Len(y) : y[i] = c }

ClassCounts(y) == [c \in Classes(y) |-> Cardinality(ClassIndices(y, c))]

\* The ways of sharing n_draws out over the classes in proportion to
\* class_counts: the floor of each class's share, plus one for the classes
\* with the largest remainders until n_draws are given out.
ApproximateMode(class_counts, n_draws) ==
    LET C == DOMAIN class_counts
        total == SumOver(class_counts, C)
        floored == [c \in C |-> (class_counts[c] * n_draws) \div total]
        remainder == [c \in C |-> (class_counts[c] * n_draws) % total]
        need_to_add == n_draws - SumOver(floored, C)
    IN { [c \in C |-> floored[c] + (IF c \in U THEN 1 ELSE 0)] :
           U \in { V \in SUBSET C :
                     /\ Cardinality(V) = need_to_add
                     /\ \A u \in V, v \in C \ V : remainder[u] >= remainder[v] } }

\* stratify=None: any rows may go to either side.
UnstratifiedSides(y) ==
    { [train |-> tr, test |-> (1..Len(y)) \ tr] :
        tr \in { t \in SUBSET (1..Len(y)) : Cardinality(t) = NumTrain(Len(y)) } }

\* The sets of rows that hold exactly per_class[c] rows of each class c.
RowsByClass(y, rows, per_class) ==
    { t \in SUBSET rows :
        \A c \in Classes(y) : Cardinality(t \cap ClassIndices(y, c)) = per_class[c] }

\* stratify=labels: the index sets of the two sides.  The train rows are
\* drawn first, the test rows from what each class has left.
StratifiedSides(y) ==
    LET n == Len(y)
        counts == ClassCounts(y)
    IN UNION {
         UNION {
           UNION {
             { [train |-> tr, test |-> te] :
                 te \in RowsByClass(y, (1..n) \ tr, t_i) }
             : tr \in RowsByClass(y, 1..n, n_i) }
           : t_i \in ApproximateMode([c \in Classes(y) |-> counts[c] - n_i[c]],
                                     NumTest(n)) }
         : n_i \in ApproximateMode(counts, NumTrain(n)) }

\* The conditions under which the call raises ValueError.
SplitRaises(y) ==
    LET n == Len(y)
    IN \/ NumTrain(n) = 0
       \/ \E c \in Classes(y) : ClassCounts(y)[c] < 2
       \/ NumTrain(n) < Cardinality(Classes(y))
       \/ NumTest(n) < Cardinality(Classes(y))

RECURSIVE Ascending(_)
Ascending(S) ==
    IF S = {} THEN << >>
    ELSE LET m == CHOOSE x \in S : \A z \in S : x <= z
         IN << m >> \o Ascending(S \ {m})

\* X[idx] for a list of indices
Take(X, idx) == [k \in 1..Len(idx) |-> X[idx[k]]]

Split ==
    /\ pc = "split"
    /\ ~ SplitRaises(labels)
    /\ \E side \in StratifiedSides(labels) :
         LET train == Ascending(side.train)
             test == Ascending(side.test)
         IN /\ train_paths' = Take(audio_paths, train)
            /\ val_paths' = Take(audio_paths, test)
            /\ train_labels' = Take(labels, train)
            /\ val_labels' = Take(labels, test)
    /\ pc' = Succ("split")
    /\ UNCHANGED << error, commands_file, fs, listdir_reversed, commands, cmd_i, wav_files, audio_paths, labels,
                    warnings, spectrograms, clip, train_spectrograms,
                    val_spectrograms, input_shape, num_classes, model, saved >>

SplitFail ==
    /\ pc = "split"
    /\ SplitRaises(labels)
    /\ Raise("ValueError: train_test_split")
    /\ UNCHANGED << commands_file, fs, listdir_reversed, commands, cmd_i, wav_files, audio_paths, labels, warnings,
                    train_paths, val_paths, train_labels, val_labels,
                    spectrograms, clip, train_spectrograms, val_spectrograms,
                    input_shape, num_classes, model, saved >>

\* ------------------------------------ lines 63-91: paths_to_spectrograms

Min(a, b) == IF a <= b THEN a ELSE b

\* len(audio[:16000]) for a clip of length len
TruncateNot(len) == len

Truncate(len) == Min(len, SampleLen)

\* [16000] - tf.shape(audio)
PadLen(audio_len) == SampleLen - audio_len

\* tf.signal.stft's default fft_length: the smallest power of two that
\* holds frame_length.
RECURSIVE EnclosingPowerOfTwo(_, _)
EnclosingPowerOfTwo(n, p) == IF p >= n THEN p ELSE EnclosingPowerOfTwo(n, 2 * p)

\* Shape of tf.expand_dims(tf.abs(tf.signal.stft(signal, 255, 128)), -1)
\* for a signal of signal_len samples (pad_end=False).
SpectrogramShape(signal_len) ==
    << IF signal_len < FrameLength THEN 0
       ELSE 1 + (signal_len - FrameLength) \div FrameStep,
       EnclosingPowerOfTwo(FrameLength, 1) \div 2 + 1,
       1 >>

ConvertPaths == IF pc = "spec_train" THEN train_paths ELSE val_paths

\* One iteration of the loop (lines 74-85) on a decodable mono clip of
\* length len; tf.zeros raises on a negative size.
ConvertClip ==
    /\ pc \in {"spec_train", "spec_val"}
    /\ Len(spectrograms) < Len(ConvertPaths)
    /\ \E len \in ClipLengths :
         LET audio == Truncate(len)
             zero_padding == PadLen(audio)
         IN IF zero_padding < 0
            THEN /\ clip' = [len |-> len, audio |-> audio,
                             zero_padding |-> zero_padding, signal |-> audio]
                 /\ Raise("InvalidArgumentError: tf.zeros")
                 /\ spectrograms' = spectrograms
            ELSE /\ clip' = [len |-> len, audio |-> audio,
                             zero_padding |-> zero_padding,
                             signal |-> audio + zero_padding]
                 /\ spectrograms' =
                       ListAppend(spectrograms, SpectrogramShape(audio + zero_padding))
                 /\ pc' = pc
                 /\ error' = error
    /\ UNCHANGED << commands_file, fs, listdir_reversed, commands, cmd_i, wav_files, audio_paths, labels, warnings,
                    train_paths, val_paths, train_labels, val_labels,
                    train_spectrograms, val_spectrograms,
                    input_shape, num_classes, model, saved >>

\* tf.audio.decode_wav raises on a file that is not a WAV file, tf.squeeze on
\* a clip whose channel count is not 1; the function's locals go with its
\* frame.
ConvertFail ==
    /\ pc \in {"spec_train", "spec_val"}
    /\ Len(spectrograms) < Len(ConvertPaths)
    /\ \E channels \in ClipChannels \cup {0} :
         /\ channels # 1
         /\ Raise(IF channels = 0 THEN "InvalidArgumentError: decode_wav"
                  ELSE "InvalidArgumentError: squeeze")
    /\ spectrograms' = << >>
    /\ clip' = NoClip
    /\ UNCHANGED << commands_file, fs, listdir_reversed, commands, cmd_i, wav_files, audio_paths, labels, warnings,
                    train_paths, val_paths, train_labels, val_labels,
                    train_spectrograms, val_spectrograms,
                    input_shape, num_classes, model, saved >>

\* return spectrograms (line 86), bound at line 90 or 91.
ConvertReturn ==
    /\ pc \in {"spec_train", "spec_val"}
    /\ Len(spectrograms) = Len(ConvertPaths)
    /\ IF pc = "spec_train"
       THEN train_spectrograms' = spectrograms /\ val_spectrograms' = val_spectrograms
       ELSE val_spectrograms' = spectrograms /\ train_spectrograms' = train_spectrograms
    /\ spectrograms' = << >>
    /\ clip' = NoClip
    /\ pc' = Succ(pc)
    /\ UNCHANGED << error, commands_file, fs, listdir_reversed, commands, cmd_i, wav_files, audio_paths, labels,
                    warnings, train_paths, val_paths, train_labels, val_labels,
                    input_shape, num_classes, model, saved >>

\* ------------------------------------------ lines 94-97: lists to tensors

\* tf.stack needs a non-empty list of tensors of one shape.
Stackable(list) ==
    /\ list # << >>
    /\ \A i \in 1..Len(list) : list[i] = list[1]

\* The shape of tf.stack(list)
StackedShape(list) == << Len(list) >> \o list[1]

Stack ==
    /\ pc = "stack"
    /\ IF Stackable(train_spectrograms) /\ Stackable(val_spectrograms)
       THEN /\ train_spectrograms' = StackedShape(train_spectrograms)
            /\ val_spectrograms' = StackedShape(val_spectrograms)
            /\ pc' = Succ("stack")
            /\ error' = error
       ELSE /\ Raise("InvalidArgumentError: tf.stack")
            /\ UNCHANGED << train_spectrograms, val_spectrograms >>
    /\ UNCHANGED << commands_file, fs, listdir_reversed, commands, cmd_i, wav_files, audio_paths, labels, warnings,
                    train_paths, val_paths, train_labels, val_labels,
                    spectrograms, clip, input_shape, num_classes, model, saved >>

\* ------------------------------- lines 148-176: build, compile, fit, save

\* num_classes = len(commands)
NumClassesFound == Cardinality(Range(labels))

NumClasses == Len(commands)

\* input_shape = train_spectrograms.shape[1:]; num_classes = len(commands);
\* model = create_binary_model(input_shape, num_classes)
Build ==
    /\ pc = "build"
    /\ input_shape' = Tail(train_spectrograms)
    /\ num_classes' = NumClasses
    /\ model' = "built"
    /\ pc' = Succ("build")
    /\ UNCHANGED << error, commands_file, fs, listdir_reversed, commands, cmd_i, wav_files, audio_paths, labels,
                    warnings, train_paths, val_paths, train_labels, val_labels,
                    spectrograms, clip, train_spectrograms, val_spectrograms,
                    saved >>

Compile ==
    /\ pc = "compile"
    /\ model' = "compiled"
    /\ pc' = Succ("compile")
    /\ UNCHANGED << error, commands_file, fs, listdir_reversed, commands, cmd_i, wav_files, audio_paths, labels,
                    warnings, train_paths, val_paths, train_labels, val_labels,
                    spectrograms, clip, train_spectrograms, val_spectrograms,
                    input_shape, num_classes, saved >>

Fit ==
    /\ pc = "fit"
    /\ model' = "trained"
    /\ pc' = Succ("fit")
    /\ UNCHANGED << error, commands_file, fs, listdir_reversed, commands, cmd_i, wav_files, audio_paths, labels,
                    warnings, train_paths, val_paths, train_labels, val_labels,
                    spectrograms, clip, train_spectrograms, val_spectrograms,
                    input_shape, num_classes, saved >>

Save ==
    /\ pc = "save"
    /\ saved' = Append(saved, ModelPath)
    /\ pc' = Succ("save")
    /\ UNCHANGED << error, commands_file, fs, listdir_reversed, commands, cmd_i, wav_files, audio_paths, labels,
                    warnings, train_paths, val_paths, train_labels, val_labels,
                    spectrograms, clip, train_spectrograms, val_spectrograms,
                    input_shape, num_classes, model >>

\* ------------------------------------------------------- specifications

Next ==
    \/ ReadCommands
    \/ ReadFail
    \/ ScanCommand
    \/ ScanAppend
    \/ ScanReturn
    \/ CheckSamples
    \/ Split
    \/ SplitFail
    \/ ConvertClip
    \/ ConvertFail
    \/ ConvertReturn
    \/ Stack
    \/ Build
    \/ Compile
    \/ Fit
    \/ Save

Spec == Init /\ [][Next]_vars

\* The interpreter runs the next statement whenever there is one.
FairSpec == Spec /\ WF_vars(Next)

\* ------------------------------------------------- vocabulary of the claims

IsPrefix(a, b) == Len(a) <= Len(b) /\ SubSeq(b, 1, Len(a)) = a

\* The name's last four characters are ".wav".
IsWavName(f) ==
    /\ Len(f) >= 4
    /\ f[Len(f) - 3] = "."
    /\ f[Len(f) - 2] = "w"
    /\ f[Len(f) - 1] = "a"
    /\ f[Len(f)] = "v"

\* The directory of the command at position i, and what it holds.
DirOf(i) == << DATASET_PATH, commands[i] >>
HasDir(i) == fs[DirOf(i)].kind = "dir"
WavEntries(i) == IF HasDir(i) THEN { f \in fs[DirOf(i)].entries : IsWavName(f) } ELSE {}

\* load_audio_files has returned.
ScanDone == pc \notin {"read", "scan", "scan_files"} /\ cmd_i = Len(commands)

NoSamplesError == "ValueError: Nessun campione trovato"

Pairs(paths, ls) == { << paths[k], ls[k] >> : k \in 1..Len(paths) }

Count(ls, l) == Cardinality({ k \in 1..Len(ls) : ls[k] = l })

\* train_test_split has returned.
SplitDone == train_labels # << >> \/ val_labels # << >>

\* The position of each statement in the order the pipeline is said to run:
\* read, scan, zero-sample check, split, conversion (train, validation, to
\* tensors), construction, compile, train, save, end.
Rank(p) ==
    CASE p = "read" -> 1
      [] p \in {"scan", "scan_files"} -> 2
      [] p = "check" -> 3
      [] p = "split" -> 4
      [] p = "spec_train" -> 5
      [] p = "spec_val" -> 6
      [] p = "stack" -> 7
      [] p = "build" -> 8
      [] p = "compile" -> 9
      [] p = "fit" -> 10
      [] p = "save" -> 11
      [] p = "done" -> 12
      [] OTHER -> 0

\* ------------------------------------------------------------------ claims

\* C1: when the scan found no audio path the run ends in the "no samples"
\* ValueError right after the scan: no later statement is reached, nothing is
\* split, converted, built or saved.  When at least one sample was found that
\* error is not raised.
C1_ZeroSamplesFatal ==
    /\ Len(audio_paths) = 0 /\ pc \notin {"read", "scan", "scan_files", "check"}
         => /\ pc = "error"
            /\ error \in {NoSamplesError, "FileNotFoundError"}
    /\ error = NoSamplesError
         => /\ Len(audio_paths) = 0
            /\ cmd_i = Len(commands)
            /\ train_paths = << >> /\ val_paths = << >>
            /\ train_spectrograms = << >> /\ val_spectrograms = << >>
            /\ model = "none"
            /\ saved = << >>
    /\ Len(audio_paths) > 0 => error # NoSamplesError

\* Two commands were scanned, one directory holding only a file that is not
\* a ".wav" file, and the run ended in the "no samples" error.
C1_Witness ==
    /\ error = NoSamplesError
    /\ Len(commands) = 2
    /\ \E d \in DOMAIN fs : fs[d].kind = "dir" /\ fs[d].entries # {}

\* C2: audio_paths and labels have equal length, and every audio_paths[i] is
\* an entry of the directory DATASET_PATH/commands[labels[i]].
C2_PathsPairedWithLabels ==
    /\ Len(audio_paths) = Len(labels)
    /\ \A i \in 1..Len(audio_paths) :
         /\ labels[i] \in 0..(Len(commands) - 1)
         /\ audio_paths[i][1] = DirOf(labels[i] + 1)
         /\ HasDir(labels[i] + 1)
         /\ audio_paths[i][2] \in fs[DirOf(labels[i] + 1)].entries

\* The scan returned samples of two different commands.
C2_Witness ==
    /\ pc = "check"
    /\ Len(commands) = 2
    /\ commands[1] # commands[2]
    /\ \E i, j \in 1..Len(labels) : labels[i] = 0 /\ labels[j] = 1

\* C3: each command the scan has taken has exactly one warning when its
\* directory is missing (or no directory) or holds no ".wav" entry, and none
\* when it holds a sample; the scan never ends the run, and once it has
\* returned, the samples of every command are collected.
C3_WarningsNotFatal ==
    /\ \A i \in 1..cmd_i :
         LET mine == { k \in 1..Len(warnings) : warnings[k].label = i - 1 }
         IN /\ WavEntries(i) # {} => mine = {}
            /\ WavEntries(i) = {} => Cardinality(mine) = 1
            /\ \A k \in mine :
                 warnings[k].what = IF HasDir(i) THEN "empty" ELSE "missing"
    /\ \A k \in 1..Len(warnings) : warnings[k].label \in 0..(cmd_i - 1)
    /\ pc = "error" => cmd_i = Len(commands)
    /\ ScanDone =>
         \A i \in 1..Len(commands) : \A f \in WavEntries(i) :
            << << DirOf(i), f >>, i - 1 >> \in Pairs(audio_paths, labels)

\* The first command was warned about and the samples of the second one were
\* collected all the same.
C3_Witness ==
    /\ pc = "check"
    /\ warnings # << >>
    /\ warnings[1].label = 0
    /\ labels # << >>
    /\ labels[1] = 1

\* C4: after the split, the train and validation sets are disjoint and
\* together hold every scanned (path, label) pair exactly once; the
\* validation set holds 20% of the samples, rounded up, and the train set the
\* rest; each label's count in the validation set is within one of its share.
C4_SplitProportionStratified ==
    SplitDone =>
      LET n == Len(audio_paths)
          t == Len(train_paths)
          v == Len(val_paths)
          all == Pairs(audio_paths, labels)
          train == Pairs(train_paths, train_labels)
          val == Pairs(val_paths, val_labels)
      IN /\ Len(train_labels) = t /\ Len(val_labels) = v
         /\ Cardinality(all) = n
         /\ t + v = n
         /\ Cardinality(train) = t /\ Cardinality(val) = v
         /\ train \cap val = {}
         /\ train \cup val = all
         /\ 100 * v >= 20 * n /\ 100 * v < 20 * n + 100
         /\ 100 * t <= 80 * n /\ 100 * t > 80 * n - 100
         /\ \A l \in Range(labels) :
              LET d == Count(val_labels, l) * n - v * Count(labels, l)
              IN -n < d /\ d < n

\* A split of six samples of two classes: four train, two validation, one
\* validation sample of each class.
C4_Witness ==
    /\ Len(train_labels) = 4
    /\ Len(val_labels) = 2
    /\ val_labels[1] # val_labels[2]

\* C5: every clip the conversion has handled, of whatever length, is cut to
\* min(L, 16000) samples and padded by 16000 - min(L, 16000) >= 0 zeros, so
\* the STFT gets 16000 samples; all spectrograms have one shape, and stacking
\* them never fails.
C5_FixedSpectrogramShape ==
    /\ clip # NoClip =>
         /\ clip.audio = (IF clip.len < 16000 THEN clip.len ELSE 16000)
         /\ clip.zero_padding = 16000 - clip.audio
         /\ clip.zero_padding >= 0
         /\ clip.signal = 16000
    /\ \A i, j \in 1..Len(spectrograms) : spectrograms[i] = spectrograms[j]
    /\ pc \in {"spec_val", "stack"} =>
         /\ Len(train_spectrograms) = Len(train_paths)
         /\ \A i, j \in 1..Len(train_spectrograms) :
              train_spectrograms[i] = train_spectrograms[j]
         /\ \A i \in 1..Len(train_spectrograms), j \in 1..Len(spectrograms) :
              train_spectrograms[i] = spectrograms[j]
    /\ pc = "stack" =>
         /\ Len(val_spectrograms) = Len(val_paths)
         /\ \A i \in 1..Len(train_spectrograms), j \in 1..Len(val_spectrograms) :
              train_spectrograms[i] = val_spectrograms[j]
    /\ model # "none" =>
         /\ Head(train_spectrograms) = Len(train_paths)
         /\ Head(val_spectrograms) = Len(val_paths)
         /\ Tail(train_spectrograms) = Tail(val_spectrograms)
         /\ input_shape = Tail(train_spectrograms)
    /\ error \notin {"InvalidArgumentError: tf.zeros", "InvalidArgumentError: tf.stack"}

\* A clip longer than one second was cut and its spectrogram added after
\* that of another clip.
C5_Witness ==
    /\ clip.len > 16000
    /\ clip.signal = 16000
    /\ Len(spectrograms) >= 2

\* C6: the model file is written at most once, at 'binary_kws_model.h5', and
\* only when model.fit has completed; a run that ended in an error wrote none.
C6_ModelFileOnceAfterFit ==
    /\ Len(saved) <= 1
    /\ \A i \in 1..Len(saved) : saved[i] = "binary_kws_model.h5"
    /\ saved # << >> => model = "trained"
    /\ pc = "error" => saved = << >>

\* The model file was written in a run over two commands.
C6_Witness ==
    /\ saved # << >>
    /\ Len(commands) = 2

\* A step stays in its stage, moves to the next one, or ends the run in an
\* error; a run that has ended takes no step.
C7_StepInOrder ==
    /\ pc \in {"done", "error"} => pc' = pc
    /\ pc' # pc =>
         \/ pc' = "error"
         \/ Rank(pc) > 0 /\ Rank(pc') \in {Rank(pc), Rank(pc) + 1}

\* C7: each step moves to the next stage of the order read, scan, check,
\* split, conversion, construction, compile, train, save (or stays in its
\* stage, or ends the run in an error): none is skipped or taken twice; every
\* run ends, and one that ends without an error has trained and saved.
C7_Sequential ==
    /\ [][C7_StepInOrder]_vars
    /\ <>(pc \in {"done", "error"})
    /\ [](pc = "done" => model = "trained" /\ Len(saved) = 1)

\* A run reached its end without an error.
C7_Witness ==
    /\ pc = "done"
    /\ error = "none"

\* C8: once the scan has returned, each ".wav" entry of each command's
\* directory is in audio_paths exactly once under that command's label, no
\* other entry is, and with distinct command names each path occurs once and
\* the number of samples is the sum of the directories' ".wav" counts.
C8_ExactlyTheWavFiles ==
    /\ \A k \in 1..Len(audio_paths) : IsWavName(audio_paths[k][2])
    /\ ScanDone =>
         /\ \A i \in 1..Len(commands) : \A f \in WavEntries(i) :
              Cardinality({ k \in 1..Len(audio_paths) :
                              /\ audio_paths[k] = << DirOf(i), f >>
                              /\ labels[k] = i - 1 }) = 1
         /\ (\A i, j \in 1..Len(commands) : i # j => commands[i] # commands[j])
              => /\ \A j, k \in 1..Len(audio_paths) :
                      j # k => audio_paths[j] # audio_paths[k]
                 /\ Len(audio_paths) =
                      SumOver([i \in 1..Len(commands) |-> Cardinality(WavEntries(i))],
                              1..Len(commands))

\* The scan returned from a directory that holds ".wav" files and another
\* file.
C8_Witness ==
    /\ pc = "check"
    /\ Len(audio_paths) >= 2
    /\ \E d \in DOMAIN fs : \E f \in fs[d].entries : ~ IsWavName(f)

\* C9: every label, in the scan's list and in both sets of the split, is a
\* position of the command list, 0 <= label < len(commands), and names the
\* command whose directory the sample is in; the model has len(commands)
\* output classes, so every label is below num_classes.
C9_LabelsAreClassIndices ==
    /\ \A l \in Range(labels) \cup Range(train_labels) \cup Range(val_labels) :
         0 <= l /\ l < Len(commands)
    /\ \A k \in 1..Len(train_labels) : train_paths[k][1] = DirOf(train_labels[k] + 1)
    /\ \A k \in 1..Len(val_labels) : val_paths[k][1] = DirOf(val_labels[k] + 1)
    /\ model # "none" =>
         /\ num_classes = Len(commands)
         /\ \A l \in Range(train_labels) \cup Range(val_labels) : l < num_classes

\* The first command had no samples, the second one's samples kept label 1,
\* and the model was trained on them.
C9_Witness ==
    /\ model = "trained"
    /\ warnings # << >>
    /\ warnings[1].label = 0
    /\ train_labels # << >>
    /\ train_labels[1] = 1

====
